---- MODULE Spec2Model ----
(***************************************************************************)
(* Egyptian ID OCR: detection -> crop -> OCR pipeline (app.py,             *)
(* services/*.py) and the national-ID birth-date derivation                *)
(* (services/utils.py).                                                    *)
(*                                                                         *)
(* Text is modelled as a sequence of characters.  A character is a TLA+    *)
(* string: "0".."9" are the ASCII digits, "e0".."e9" stand for the ten     *)
(* Eastern-Arabic glyphs U+0660..U+0669, "p4" stands for a decimal digit   *)
(* of another script (U+06F4), "s2" for a digit character that is not a    *)
(* decimal (U+00B2), and everything else (" ", "-", "x", "A", ...) is a    *)
(* non-digit character.                                                    *)
(***************************************************************************)
EXTENDS Integers, Sequences, FiniteSets, TLC

VARIABLES
    national_id,    \* the argument of derive_birthdate_from_national_id
    bd_out,         \* what it returned
    date_pc,        \* "off", "called", "returned"
    ocr_service,    \* the OCRService object: _ocr_ar, _ocr_en, _initialization_error
    n_instances,    \* how many PaddleOCR objects have been constructed
    constructions,  \* per language, how many constructions have succeeded
    dispatched,     \* the languages a label has been dispatched to so far
    ocr_pc,         \* "idle", "returned"
    ocr_call,       \* the last call of run_ocr / process_crops: what the
                    \* environment did, its locals at return, and its result
    image,          \* st.session_state.uploaded_image_path: 0 (None) or an image
    ocr_result_image, \* the image_path of the run that stored ocr_result (0: none)
    det_loaded,     \* st.session_state.detection_service is not None
    ss_detections,  \* st.session_state.detections
    ss_crop_map,    \* st.session_state.crop_map
    ss_ocr_result,  \* st.session_state.ocr_result
    crop_files,     \* what static/crops/<label>.png holds
    pi_pc,          \* where process_image is: "idle", "detect", "crop", "ocr"
    run,            \* the record of the current (or last) run of process_image
    det_pc,         \* a call of DetectionService.detect: "off", "called", "returned"
    det_call,       \* its image size, the model's outputs, the threshold, its result
    cropper_pc,     \* a call of CropService.crop_regions: "off", "called", "returned"
    cropper_call,   \* its image, detections, max size, what imwrite does, its result
    environ,        \* os.environ of the process: the two settings
    sessions,       \* per browser session: its st.session_state and script position
    crops_dir,      \* static/crops/<label>.png: which session's run wrote it last
    recognizers     \* per language, the PaddleOCR objects constructed in the process

date_vars == <<national_id, bd_out, date_pc>>

svc_vars == <<ocr_service, n_instances, constructions, dispatched>>

ocr_vars == <<ocr_pc, ocr_call>>

app_vars == <<image, ocr_result_image, det_loaded, ss_detections, ss_crop_map,
              ss_ocr_result, crop_files, pi_pc, run>>

det_vars == <<det_pc, det_call>>

cropper_vars == <<cropper_pc, cropper_call>>

proc_vars == <<environ, sessions, crops_dir, recognizers>>

vars == <<national_id, bd_out, date_pc, ocr_service, n_instances, constructions,
          dispatched, ocr_pc, ocr_call, image, ocr_result_image, det_loaded, ss_detections,
          ss_crop_map, ss_ocr_result, crop_files, pi_pc, run, det_pc, det_call,
          cropper_pc, cropper_call, environ, sessions, crops_dir, recognizers>>

(***************************************************************************)
(* Characters                                                              *)
(***************************************************************************)
AsciiDigits == {"0", "1", "2", "3", "4", "5", "6", "7", "8", "9"}

EasternDigits == {"e0", "e1", "e2", "e3", "e4", "e5", "e6", "e7", "e8", "e9"}

OtherDecimalDigits == {"p4"}

NonDecimalDigits == {"s2"}

\* int() of one character: its decimal value, -1 when int() raises ValueError
DecimalValue(ch) ==
    CASE ch \in {"0", "e0"} -> 0
      [] ch \in {"1", "e1"} -> 1
      [] ch \in {"2", "e2"} -> 2
      [] ch \in {"3", "e3"} -> 3
      [] ch \in {"4", "e4", "p4"} -> 4
      [] ch \in {"5", "e5"} -> 5
      [] ch \in {"6", "e6"} -> 6
      [] ch \in {"7", "e7"} -> 7
      [] ch \in {"8", "e8"} -> 8
      [] ch \in {"9", "e9"} -> 9
      [] OTHER -> -1

\* str.isdigit() of one character
CharIsDigit(ch) ==
    ch \in AsciiDigits \cup EasternDigits \cup OtherDecimalDigits \cup NonDecimalDigits

\* str.isdigit(): every character is a digit and there is at least one
IsDigitStr(s) == Len(s) > 0 /\ \A i \in 1..Len(s) : CharIsDigit(s[i])

\* int() of a two-character string; -1 stands for the ValueError it raises
IntOfTwo(s) ==
    IF DecimalValue(s[1]) < 0 \/ DecimalValue(s[2]) < 0
    THEN -1
    ELSE 10 * DecimalValue(s[1]) + DecimalValue(s[2])

DigitChar(n) ==
    CASE n = 0 -> "0" [] n = 1 -> "1" [] n = 2 -> "2" [] n = 3 -> "3"
      [] n = 4 -> "4" [] n = 5 -> "5" [] n = 6 -> "6" [] n = 7 -> "7"
      [] n = 8 -> "8" [] n = 9 -> "9"

(***************************************************************************)
(* services/utils.py                                                       *)
(***************************************************************************)
EASTERN_TO_ENGLISH(ch) ==
    CASE ch = "e0" -> "0" [] ch = "e1" -> "1" [] ch = "e2" -> "2"
      [] ch = "e3" -> "3" [] ch = "e4" -> "4" [] ch = "e5" -> "5"
      [] ch = "e6" -> "6" [] ch = "e7" -> "7" [] ch = "e8" -> "8"
      [] ch = "e9" -> "9" [] OTHER -> ch

to_english_numerals(text) == [i \in 1..Len(text) |-> EASTERN_TO_ENGLISH(text[i])]

\* datetime's calendar
IsLeap(y) == y % 4 = 0 /\ (y % 100 # 0 \/ y % 400 = 0)

DaysInMonth(y, m) ==
    CASE m \in {1, 3, 5, 7, 8, 10, 12} -> 31
      [] m \in {4, 6, 9, 11} -> 30
      [] m = 2 -> IF IsLeap(y) THEN 29 ELSE 28

\* datetime without its day-of-month check: any day up to 31 passes
DatetimeValidAnyDay(y, m, d) ==
    /\ y >= 1 /\ y <= 9999
    /\ m >= 1 /\ m <= 12
    /\ d >= 1 /\ d <= 31

\* datetime(year, month, day) raises ValueError unless this holds
DatetimeValid(y, m, d) ==
    /\ y >= 1 /\ y <= 9999
    /\ m >= 1 /\ m <= 12
    /\ d >= 1 /\ d <= DaysInMonth(y, m)

\* strftime with the format "%m/%d/%Y"
StrftimeMonthFirst(y, m, d) ==
    << DigitChar(m \div 10), DigitChar(m % 10), "/",
       DigitChar(d \div 10), DigitChar(d % 10), "/",
       DigitChar(y \div 1000), DigitChar((y \div 100) % 10),
       DigitChar((y \div 10) % 10), DigitChar(y % 10) >>

\* dt.strftime("%d/%m/%Y")
Strftime(y, m, d) ==
    << DigitChar(d \div 10), DigitChar(d % 10), "/",
       DigitChar(m \div 10), DigitChar(m % 10), "/",
       DigitChar(y \div 1000), DigitChar((y \div 100) % 10),
       DigitChar((y \div 10) % 10), DigitChar(y % 10) >>

\* the try block of derive_birthdate_from_national_id: int() of the three
\* two-character fields and datetime(year_full, month, day); raised says that
\* one of them raised ValueError
TryDatetime(century, year_two, month_two, day_two) ==
    LET yy == IntOfTwo(year_two)
        month == IntOfTwo(month_two)
        day == IntOfTwo(day_two)
    IN  IF yy < 0 \/ month < 0 \/ day < 0
        THEN [raised |-> TRUE, year |-> 0, month |-> 0, day |-> 0]
        ELSE IF ~DatetimeValid(century + yy, month, day)
             THEN [raised |-> TRUE, year |-> 0, month |-> 0, day |-> 0]
             ELSE [raised |-> FALSE, year |-> century + yy, month |-> month, day |-> day]

derive_birthdate_from_national_id(id) ==
    IF Len(id) < 7 \/ ~IsDigitStr(id)
    THEN << >>
    ELSE LET century_code == id[1]
             year_two == SubSeq(id, 2, 3)
             month_two == SubSeq(id, 4, 5)
             day_two == SubSeq(id, 6, 7)
         IN  IF century_code \notin {"2", "3"}
             THEN << >>
             ELSE LET century == IF century_code = "2" THEN 1900 ELSE 2000
                      dt == TryDatetime(century, year_two, month_two, day_two)
                  IN  IF dt.raised
                      THEN << >>
                      ELSE Strftime(dt.year, dt.month, dt.day)

(***************************************************************************)
(* Labels, paths, files                                                    *)
(***************************************************************************)
\* app.py image_order, ocr_service.py ocr_tasks: the six recognised labels
image_order == <<"Add1", "Add2", "Name1", "Name2", "Num1", "Num2">>

CropLabels == {image_order[i] : i \in 1..Len(image_order)}

FieldLabels == CropLabels \cup {"BD"}

\* os.path.join(self.crops_dir, f"{label}.png"): the crop path of a label is
\* identified with the label
out_path(label) == label

\* what a path holds on disk
FileKinds == {"missing", "empty", "undecodable", "zero_area", "image"}

\* None, for a recognizer that is not constructed (instances are 1, 2, ...)
NoInstance == 0

Reversed(s) == [i \in 1..Len(s) |-> s[Len(s) + 1 - i]]

(***************************************************************************)
(* services/ocr_service.py                                                 *)
(***************************************************************************)
\* OCRService.__init__
NewOCRService == [ocr_ar |-> NoInstance, ocr_en |-> NoInstance,
                  initialization_error |-> "None"]

\* ocr_ar without the "is None" guard: every read constructs
ocr_ar_uncached(svc, ok, fresh) ==
    IF ok
    THEN [svc |-> [svc EXCEPT !.ocr_ar = fresh], model |-> fresh,
          raised |-> FALSE, built |-> TRUE]
    ELSE [svc |-> [svc EXCEPT !.initialization_error = "Failed to initialize Arabic OCR"],
          model |-> NoInstance, raised |-> TRUE, built |-> FALSE]

\* property ocr_ar. ok: whether PaddleOCR(lang="ar") succeeds if it is called;
\* fresh: the object it returns then.
ocr_ar(svc, ok, fresh) ==
    IF svc.ocr_ar = NoInstance
    THEN IF ok
         THEN [svc |-> [svc EXCEPT !.ocr_ar = fresh], model |-> fresh,
               raised |-> FALSE, built |-> TRUE]
         ELSE [svc |-> [svc EXCEPT !.initialization_error = "Failed to initialize Arabic OCR"],
               model |-> NoInstance, raised |-> TRUE, built |-> FALSE]
    ELSE [svc |-> svc, model |-> svc.ocr_ar, raised |-> FALSE, built |-> FALSE]

\* property ocr_en
ocr_en(svc, ok, fresh) ==
    IF svc.ocr_en = NoInstance
    THEN IF ok
         THEN [svc |-> [svc EXCEPT !.ocr_en = fresh], model |-> fresh,
               raised |-> FALSE, built |-> TRUE]
         ELSE [svc |-> [svc EXCEPT !.initialization_error = "Failed to initialize English OCR"],
               model |-> NoInstance, raised |-> TRUE, built |-> FALSE]
    ELSE [svc |-> svc, model |-> svc.ocr_en, raised |-> FALSE, built |-> FALSE]

\* OCRService._validate_image
validate_image(files, image_path) ==
    IF files[image_path] = "missing" THEN FALSE
    ELSE IF files[image_path] = "empty" THEN FALSE
    ELSE IF files[image_path] = "undecodable" THEN FALSE
    ELSE IF files[image_path] = "zero_area" THEN FALSE
    ELSE TRUE

\* ocr_tasks of run_ocr: the language profile of each label
ocr_model_name(label) == IF label = "Num2" THEN "en" ELSE "ar"

\* The state threaded through the label loops of run_ocr and process_crops:
\* svc the service, n the number of recognizers constructed so far,
\* results the local dictionary, and the record of what happened:
\* used[l] the instance predict ran on for l, asked the labels for which the
\* recognizer property was read, init_failed the labels at which a
\* construction raised, built the labels at which one succeeded.
LoopStart(svc, n) ==
    [svc |-> svc, n |-> n, results |-> << >>,
     used |-> [l \in CropLabels |-> NoInstance],
     asked |-> {}, init_failed |-> {}, built |-> {}]

SetResult(st, label, val) ==
    [st EXCEPT !.results = [l \in (DOMAIN st.results) \cup {label} |->
                               IF l = label THEN val ELSE st.results[l]]]

\* One iteration of run_ocr's loop over ocr_tasks. env[label].init: whether a
\* construction attempted at this label succeeds; env[label].predict: what
\* ocr_model.predict does on this label's image.
RunOcrTask(st, label, image_path, files, env) ==
    LET got == IF ocr_model_name(label) = "ar"
               THEN ocr_ar(st.svc, env[label].init, st.n + 1)
               ELSE ocr_en(st.svc, env[label].init, st.n + 1)
        st1 == [st EXCEPT !.svc = got.svc,
                          !.asked = st.asked \cup {label},
                          !.n = IF got.built THEN st.n + 1 ELSE st.n,
                          !.built = IF got.built THEN st.built \cup {label} ELSE st.built,
                          !.init_failed = IF got.raised THEN st.init_failed \cup {label}
                                          ELSE st.init_failed]
    IN  IF got.raised
        THEN SetResult(st1, label, << >>)
        ELSE IF ~validate_image(files, image_path)
             THEN SetResult(st1, label, << >>)
             ELSE LET st2 == [st1 EXCEPT !.used[label] = got.model]
                  IN  IF env[label].predict.raises
                      THEN SetResult(st2, label, << >>)
                      ELSE SetResult(st2, label, env[label].predict.pages)

\* the loop of run_ocr leaving at the first label whose image fails
\* validation or whose recognition raises
RECURSIVE RunOcrLoopAbort(_, _, _, _, _)
RunOcrLoopAbort(i, st, image_list, files, env) ==
    IF i > Len(image_order)
    THEN st
    ELSE LET st1 == RunOcrTask(st, image_order[i], image_list[i], files, env)
         IN  IF image_order[i] \notin st1.init_failed
                /\ (~validate_image(files, image_list[i]) \/ env[image_order[i]].predict.raises)
             THEN st1
             ELSE RunOcrLoopAbort(i + 1, st1, image_list, files, env)

RECURSIVE RunOcrLoop(_, _, _, _, _)
RunOcrLoop(i, st, image_list, files, env) ==
    IF i > Len(image_order)
    THEN st
    ELSE RunOcrLoop(i + 1,
                    RunOcrTask(st, image_order[i], image_list[i], files, env),
                    image_list, files, env)

\* get_text reversing whatever reverse_order says
get_text_reverse_all(result, reverse_order) ==
    IF Len(result) > 0
    THEN LET rec_texts == result[1].rec_texts
         IN  IF Len(rec_texts) > 0
             THEN IF Len(rec_texts) > 1
                  THEN Reversed(rec_texts)
                  ELSE rec_texts
             ELSE << >>
    ELSE << >>

\* get_text inside run_ocr
get_text(result, reverse_order) ==
    IF Len(result) > 0
    THEN LET rec_texts == result[1].rec_texts
         IN  IF Len(rec_texts) > 0
             THEN IF reverse_order /\ Len(rec_texts) > 1
                  THEN Reversed(rec_texts)
                  ELSE rec_texts
             ELSE << >>
    ELSE << >>

\* results.get(label, [])
ResultsGet(results, label) ==
    IF label \in DOMAIN results THEN results[label] ELSE << >>

\* str.strip()
RECURSIVE Strip(_)
Strip(s) ==
    IF Len(s) = 0 THEN s
    ELSE IF s[1] = " " THEN Strip(Tail(s))
    ELSE IF s[Len(s)] = " " THEN Strip(SubSeq(s, 1, Len(s) - 1))
    ELSE s

\* ''.join(filter(str.isdigit, text))
FilterDigits(text) == SelectSeq(text, CharIsDigit)

\* the BD derivation taking the last token of Num1 instead of the first
RunOcrBDLastToken(num1) ==
    IF Len(num1) > 0
    THEN LET num1_text == Strip(num1[Len(num1)])
             num1_english == to_english_numerals(num1_text)
             num1_digits == FilterDigits(num1_english)
         IN  IF Len(num1_digits) >= 7
             THEN LET bd == derive_birthdate_from_national_id(num1_digits)
                  IN  IF bd # << >> THEN <<bd>> ELSE << >>
             ELSE << >>
    ELSE << >>

\* the BD derivation at the end of run_ocr, from ocr_result["Num1"]
RunOcrBD(num1) ==
    IF Len(num1) > 0
    THEN LET num1_text == Strip(num1[1])
             num1_english == to_english_numerals(num1_text)
             num1_digits == FilterDigits(num1_english)
         IN  IF Len(num1_digits) >= 7
             THEN LET bd == derive_birthdate_from_national_id(num1_digits)
                  IN  IF bd # << >> THEN <<bd>> ELSE << >>
             ELSE << >>
    ELSE << >>

\* the ocr_result dictionary run_ocr builds from results
RunOcrResult(results) ==
    LET num1 == get_text(ResultsGet(results, "Num1"), TRUE)
    IN  [l \in FieldLabels |->
            IF l = "BD" THEN RunOcrBD(num1)
            ELSE IF l = "Num1" THEN num1
            ELSE IF l = "Num2" THEN get_text(ResultsGet(results, "Num2"), FALSE)
            ELSE get_text(ResultsGet(results, l), TRUE)]

\* OCRService.run_ocr(image_list): the loop state at return and the result
run_ocr(svc, n, image_list, files, env) ==
    LET st == RunOcrLoop(1, LoopStart(svc, n), image_list, files, env)
    IN  [st |-> st, ocr_result |-> RunOcrResult(st.results)]

\* " ".join(texts)
RECURSIVE JoinSpace(_)
JoinSpace(texts) ==
    IF Len(texts) = 0 THEN << >>
    ELSE IF Len(texts) = 1 THEN texts[1]
    ELSE texts[1] \o <<" ">> \o JoinSpace(Tail(texts))

\* texts.extend([str(t) for t in rec_texts if t]) over every res of result
RECURSIVE CollectTexts(_)
CollectTexts(result) ==
    IF Len(result) = 0 THEN << >>
    ELSE SelectSeq(result[1].rec_texts, LAMBDA t : Len(t) > 0)
         \o CollectTexts(Tail(result))

\* OCRService._run_single_ocr(image_path, lang), for the crop of label: the
\* loop state after it and the text it returns
run_single_ocr(st, label, image_path, lang, files, env) ==
    LET got == IF lang = "en"
               THEN ocr_en(st.svc, env[label].init, st.n + 1)
               ELSE ocr_ar(st.svc, env[label].init, st.n + 1)
        st1 == [st EXCEPT !.svc = got.svc,
                          !.asked = st.asked \cup {label},
                          !.n = IF got.built THEN st.n + 1 ELSE st.n,
                          !.built = IF got.built THEN st.built \cup {label} ELSE st.built,
                          !.init_failed = IF got.raised THEN st.init_failed \cup {label}
                                          ELSE st.init_failed]
    IN  IF got.raised
        THEN [st |-> st1, text |-> << >>]
        ELSE IF ~validate_image(files, image_path)
             THEN [st |-> st1, text |-> << >>]
             ELSE LET st2 == [st1 EXCEPT !.used[label] = got.model]
                  IN  IF env[label].predict.raises
                      THEN [st |-> st2, text |-> << >>]
                      ELSE IF Len(env[label].predict.pages) = 0
                           THEN [st |-> st2, text |-> << >>]
                           ELSE [st |-> st2,
                                 text |-> Strip(JoinSpace(CollectTexts(env[label].predict.pages)))]

\* One iteration of process_crops' loop over crop_map.items()
ProcessCropsItem(st, class_name, image_path, files, env) ==
    IF files[image_path] = "missing"
    THEN st
    ELSE LET r == IF class_name = "Num2"
                  THEN run_single_ocr(st, class_name, image_path, "en", files, env)
                  ELSE run_single_ocr(st, class_name, image_path, "ar", files, env)
         IN  SetResult(r.st, class_name, r.text)

\* crop_map is the sequence of its (label, path) items
RECURSIVE ProcessCropsLoop(_, _, _, _, _)
ProcessCropsLoop(i, st, crop_map, files, env) ==
    IF i > Len(crop_map)
    THEN st
    ELSE ProcessCropsLoop(i + 1,
                          ProcessCropsItem(st, crop_map[i][1], crop_map[i][2], files, env),
                          crop_map, files, env)

\* the BD derivation at the end of process_crops, from out["Num1"]
ProcessCropsBD(num1_text) ==
    IF Len(num1_text) > 0
    THEN LET num1_english == to_english_numerals(num1_text)
             num1_digits == FilterDigits(num1_english)
         IN  IF Len(num1_digits) >= 7
             THEN derive_birthdate_from_national_id(num1_digits)
             ELSE << >>
    ELSE << >>

\* OCRService.process_crops(crop_map): the loop state at return and out
process_crops(svc, n, crop_map, files, env) ==
    LET st == ProcessCropsLoop(1, LoopStart(svc, n), crop_map, files, env)
    IN  [st |-> st,
         out |-> [l \in FieldLabels |->
                     IF l = "BD" THEN ProcessCropsBD(ResultsGet(st.results, "Num1"))
                     ELSE ResultsGet(st.results, l)]]

(***************************************************************************)
(* Inputs of the birth-date derivation                                     *)
(***************************************************************************)
CenturyCodes == {"0", "1", "2", "3", "4", "e2"}

YearTwos == {<<"0", "0">>, <<"0", "4">>, <<"2", "3">>, <<"9", "9">>}

MonthTwos ==
    {<<a, b>> : a \in {"0", "1"}, b \in AsciiDigits}
        \cup {<<"2", "0">>, <<"9", "9">>, <<"e1", "e2">>, <<"s2", "1">>}

DayTwos ==
    {<<a, b>> : a \in {"0", "1", "2", "3"}, b \in AsciiDigits}
        \cup {<<"9", "9">>, <<"p4", "0">>}

IdTails == {<< >>, <<"1", "2", "3", "4", "5", "6", "7">>, <<"1", "x">>}

SevenChars ==
    {<<c>> \o y \o m \o d : c \in CenturyCodes, y \in YearTwos,
                            m \in MonthTwos, d \in DayTwos}

DateInputs ==
    {s \o t : s \in SevenChars, t \in IdTails}
        \cup {SubSeq(s, 1, k) : s \in SevenChars, k \in 0..6}

DateOff == national_id = << >> /\ bd_out = << >> /\ date_pc = "off"

DateInit == national_id \in DateInputs /\ bd_out = << >> /\ date_pc = "called"

\* one call of derive_birthdate_from_national_id
DeriveBirthdate ==
    /\ date_pc = "called"
    /\ bd_out' = derive_birthdate_from_national_id(national_id)
    /\ date_pc' = "returned"
    /\ UNCHANGED national_id

(***************************************************************************)
(* services/detection_service.py                                           *)
(***************************************************************************)
\* CUSTOM_CLASSES.get(class_id); "" stands for None
CUSTOM_CLASSES(class_id) ==
    CASE class_id = 1 -> "Add1"
      [] class_id = 2 -> "Add2"
      [] class_id = 3 -> "BD"
      [] class_id = 4 -> "Name1"
      [] class_id = 5 -> "Name2"
      [] class_id = 6 -> "Num1"
      [] class_id = 7 -> "Num2"
      [] OTHER -> ""

\* the side of the square frame the detector works on
FrameSize == 293

\* os.environ.get("DETECTION_SCORE_THRESHOLD", "0.25"), in hundredths
DefaultScoreThresh == 25

Max2(a, b) == IF a >= b THEN a ELSE b

Min2(a, b) == IF a <= b THEN a ELSE b

\* int(a / b) for b > 0: truncation toward zero
TruncDiv(a, b) == IF a >= 0 THEN a \div b ELSE -((-a) \div b)

\* The source rescales with the float scale_x = orig_width / 293.0 and
\* truncates: int(v * scale_x).  For frame coordinates v in 0..293 and sizes
\* up to 1200 the float product truncates to the exact quotient v * orig / 293
\* except at v = 293 for the sizes below, where 293 * (orig / 293.0) comes out
\* just under orig and truncates to orig - 1.
ScaleFallsShort ==
    {19, 38, 76, 99, 111, 123, 152, 163, 187, 198, 222, 233, 246, 304,
     326, 339, 361, 374, 396, 409, 431, 444, 457, 466, 479, 492, 595,
     608, 621, 639, 652, 665, 678, 691, 722, 735, 748, 761, 792, 805,
     818, 831, 862, 875, 888, 901, 914, 932, 945, 958, 971, 984, 1015,
     1177, 1190}

\* int(v * scale) for the scale of an image side of orig pixels
ScaleCoord(v, orig) ==
    IF v = FrameSize /\ orig \in ScaleFallsShort
    THEN orig - 1
    ELSE TruncDiv(v * orig, FrameSize)

\* max(2, int(0.01 * d)); int(0.01 * d) is d / 100 truncated toward zero for
\* every d in -3000..3000
Padding(d) == Max2(2, TruncDiv(d, 100))

\* the rescaled box of a frame box b = <<x1, y1, x2, y2>> (already truncated
\* to integers)
Rescaled(b, orig_width, orig_height) ==
    << ScaleCoord(b[1], orig_width), ScaleCoord(b[2], orig_height),
       ScaleCoord(b[3], orig_width), ScaleCoord(b[4], orig_height) >>

\* the loop body without the clamp to the image
ScalePadNoClamp(b, orig_width, orig_height) ==
    LET r == Rescaled(b, orig_width, orig_height)
        pad_x == Padding(r[3] - r[1])
        pad_y == Padding(r[4] - r[2])
    IN  << r[1] - pad_x, r[2] - pad_y, r[3] + pad_x, r[4] + pad_y >>

\* the body of detect's loop for one surviving detection: rescale the frame
\* box to the original image, pad it, clamp it
ScalePadClamp(b, orig_width, orig_height) ==
    LET r == Rescaled(b, orig_width, orig_height)
        pad_x == Padding(r[3] - r[1])
        pad_y == Padding(r[4] - r[2])
    IN  << Max2(0, r[1] - pad_x), Max2(0, r[2] - pad_y),
           Min2(orig_width, r[3] + pad_x), Min2(orig_height, r[4] + pad_y) >>

\* detect's loop keeping the first box of a label instead of the last
RECURSIVE DetectLoopFirstWins(_, _, _, _, _, _)
DetectLoopFirstWins(i, res, outputs, orig_width, orig_height, score_thresh) ==
    IF i > Len(outputs)
    THEN res
    ELSE LET o == outputs[i]
             label == CUSTOM_CLASSES(o.label)
         IN  IF o.score < score_thresh \/ label = "" \/ label \in DOMAIN res.box
             THEN DetectLoopFirstWins(i + 1, res, outputs, orig_width, orig_height,
                                      score_thresh)
             ELSE DetectLoopFirstWins(i + 1,
                             [box |-> [l \in (DOMAIN res.box) \cup {label} |->
                                          IF l = label
                                          THEN ScalePadClamp(o.box, orig_width, orig_height)
                                          ELSE res.box[l]],
                              order |-> Append(res.order, label)],
                             outputs, orig_width, orig_height, score_thresh)

\* detect's loop over zip(boxes, labels, scores): outputs is the sequence of
\* [box, label, score] the model returned; res is the dictionary so far: box
\* its values, order its keys in insertion order
RECURSIVE DetectLoop(_, _, _, _, _, _)
DetectLoop(i, res, outputs, orig_width, orig_height, score_thresh) ==
    IF i > Len(outputs)
    THEN res
    ELSE LET o == outputs[i]
             label == CUSTOM_CLASSES(o.label)
         IN  IF o.score < score_thresh \/ label = ""
             THEN DetectLoop(i + 1, res, outputs, orig_width, orig_height, score_thresh)
             ELSE DetectLoop(i + 1,
                             [box |-> [l \in (DOMAIN res.box) \cup {label} |->
                                          IF l = label
                                          THEN ScalePadClamp(o.box, orig_width, orig_height)
                                          ELSE res.box[l]],
                              order |-> IF label \in DOMAIN res.box
                                        THEN res.order
                                        ELSE Append(res.order, label)],
                             outputs, orig_width, orig_height, score_thresh)

NoDetections == [box |-> << >>, order |-> << >>]

\* detect returning the empty dictionary instead of raising
detect_no_raise(outputs, orig_width, orig_height, score_thresh) ==
    [raised |-> FALSE,
     result |-> DetectLoop(1, NoDetections, outputs, orig_width, orig_height, score_thresh)]

\* DetectionService.detect: raised stands for ValueError("No detections above
\* threshold")
detect(outputs, orig_width, orig_height, score_thresh) ==
    LET result == DetectLoop(1, NoDetections, outputs, orig_width, orig_height, score_thresh)
    IN  IF Len(result.order) = 0
        THEN [raised |-> TRUE, result |-> NoDetections]
        ELSE [raised |-> FALSE, result |-> result]

(***************************************************************************)
(* services/crop_service.py                                                *)
(***************************************************************************)
\* os.environ.get("CROP_MAX_SIZE", "800")
DefaultMaxSize == 800

\* the shape of img[y1c:y2c, x1c:x2c] for an image of the given size
CropShape(box, img_w, img_h) ==
    LET x1c == Max2(0, box[1])
        y1c == Max2(0, box[2])
        x2c == Max2(x1c + 1, box[3])
        y2c == Max2(y1c + 1, box[4])
    IN  [invalid |-> x2c <= x1c \/ y2c <= y1c,
         h |-> Max2(0, Min2(y2c, img_h) - Min2(y1c, img_h)),
         w |-> Max2(0, Min2(x2c, img_w) - Min2(x1c, img_w))]

\* int(d * (max_size / longer)): the float product truncates to the exact
\* quotient d * max_size / longer for the crops this model takes, except for
\* the <<d, max_size, longer>> below, where it comes out just under an integer
DownscaleFallsShort ==
    {<<49, 400, 1225>>, <<49, 800, 1225>>, <<98, 400, 2450>>, <<98, 800, 2450>>}

DownscaleDim(d, max_size, longer) ==
    TruncDiv(d * max_size, longer)
        - (IF <<d, max_size, longer>> \in DownscaleFallsShort THEN 1 ELSE 0)

\* the resize rules with a minimum size of 32 instead of 64
ResizeCropMin32(label, h0, w0, max_size) ==
    LET h == IF label = "Num1" THEN h0 * 2 ELSE h0
        w == IF label = "Num1" THEN w0 * 2 ELSE w0
    IN  IF h > max_size \/ w > max_size
        THEN LET new_h == IF h > w THEN max_size ELSE DownscaleDim(h, max_size, w)
                 new_w == IF h > w THEN DownscaleDim(w, max_size, h) ELSE max_size
             IN  [error |-> new_h = 0 \/ new_w = 0, h |-> new_h, w |-> new_w]
        ELSE IF h < 32 \/ w < 32
             THEN LET new_h == TruncDiv(h * 32, Min2(h, w))
                      new_w == TruncDiv(w * 32, Min2(h, w))
                  IN  [error |-> FALSE, h |-> new_h, w |-> new_w]
             ELSE [error |-> FALSE, h |-> h, w |-> w]

\* the resize rules without the doubling of Num1
ResizeCropNoDoubling(label, h0, w0, max_size) ==
    LET h == h0
        w == w0
    IN  IF h > max_size \/ w > max_size
        THEN LET new_h == IF h > w THEN max_size ELSE DownscaleDim(h, max_size, w)
                 new_w == IF h > w THEN DownscaleDim(w, max_size, h) ELSE max_size
             IN  [error |-> new_h = 0 \/ new_w = 0, h |-> new_h, w |-> new_w]
        ELSE IF h < 32 \/ w < 32
             THEN LET new_h == TruncDiv(h * 64, Min2(h, w))
                      new_w == TruncDiv(w * 64, Min2(h, w))
                  IN  [error |-> FALSE, h |-> new_h, w |-> new_w]
             ELSE [error |-> FALSE, h |-> h, w |-> w]

\* the doubling of Num1 and the two resize rules; error: cv2.resize was given
\* a zero dimension and raised.  int(h * scale) with scale = max(64 / h, 64 / w)
\* is h * 64 / min(h, w) truncated, for every h, w up to 1300 with one below 32.
ResizeCrop(label, h0, w0, max_size) ==
    LET h == IF label = "Num1" THEN h0 * 2 ELSE h0
        w == IF label = "Num1" THEN w0 * 2 ELSE w0
    IN  IF h > max_size \/ w > max_size
        THEN LET new_h == IF h > w THEN max_size ELSE DownscaleDim(h, max_size, w)
                 new_w == IF h > w THEN DownscaleDim(w, max_size, h) ELSE max_size
             IN  [error |-> new_h = 0 \/ new_w = 0, h |-> new_h, w |-> new_w]
        ELSE IF h < 32 \/ w < 32
             THEN LET new_h == TruncDiv(h * 64, Min2(h, w))
                      new_w == TruncDiv(w * 64, Min2(h, w))
                  IN  [error |-> FALSE, h |-> new_h, w |-> new_w]
             ELSE [error |-> FALSE, h |-> h, w |-> w]

\* no crop stored
NoShape == [h |-> 0, w |-> 0]

\* One iteration of crop_regions' loop. st: [raised, crop_map, files, shapes];
\* write: what cv2.imwrite does for this label ("ok", "false": it returns
\* False and writes nothing, "raise"); shapes: the height and width of the
\* crop handed to cv2.imwrite for a label of crop_map.
CropOne(st, label, box, img_w, img_h, max_size, write) ==
    IF st.raised \/ label = "BD"
    THEN st
    ELSE LET shape == CropShape(box, img_w, img_h)
         IN  IF shape.invalid
             THEN st
             ELSE IF shape.h = 0 \/ shape.w = 0
                  THEN st
                  ELSE LET r == ResizeCrop(label, shape.h, shape.w, max_size)
                       IN  IF r.error
                           THEN [st EXCEPT !.raised = TRUE]
                           ELSE IF write = "raise"
                                THEN st
                                ELSE [st EXCEPT
                                        !.crop_map = st.crop_map \cup {label},
                                        !.shapes[label] = [h |-> r.h, w |-> r.w],
                                        !.files[out_path(label)] =
                                            IF write = "ok" THEN "image" ELSE @]

\* crop_regions' loop over detections.items()
RECURSIVE CropLoop(_, _, _, _, _, _, _)
CropLoop(i, st, detections, img_w, img_h, max_size, writes) ==
    IF i > Len(detections.order)
    THEN st
    ELSE LET label == detections.order[i]
         IN  CropLoop(i + 1,
                      CropOne(st, label, detections.box[label], img_w, img_h, max_size,
                              IF label \in DOMAIN writes THEN writes[label] ELSE "ok"),
                      detections, img_w, img_h, max_size, writes)

\* CropService.crop_regions. readable: cv2.imread returned an image; raised
\* stands for the RuntimeError / cv2.error that leaves crop_regions; crop_map
\* is the set of labels mapped (each to out_path(label)).
crop_regions(readable, img_w, img_h, detections, max_size, files, writes) ==
    LET NoShapes == [l \in FieldLabels |-> NoShape]
    IN  IF ~readable
        THEN [raised |-> TRUE, crop_map |-> {}, files |-> files, shapes |-> NoShapes]
        ELSE LET st == CropLoop(1, [raised |-> FALSE, crop_map |-> {}, files |-> files,
                                    shapes |-> NoShapes],
                                detections, img_w, img_h, max_size, writes)
             IN  IF st.raised
                 THEN [raised |-> TRUE, crop_map |-> {}, files |-> st.files,
                       shapes |-> NoShapes]
                 ELSE st

(***************************************************************************)
(* What the recognition capability and the file system may do in one call  *)
(***************************************************************************)
TokA == <<"A">>

TokB == <<"B">>

TokC == <<"C">>

TokX == <<"X", "7">>

TokY == <<"Y", "8">>

\* 2 90 01 01 ...: 01/01/1990
IdValid == <<"2", "9", "0", "0", "1", "0", "1", "1", "2", "3", "4", "5", "6", "7">>

\* 3 04 02 29 ... in Eastern-Arabic glyphs: 29/02/2004
IdEastern == <<"e3", "e0", "e4", "e0", "e2", "e2", "e9", "e0", "e1", "e0", "e1", "e2", "e3", "e4">>

\* " 299-1231x ": 31/12/1999 once stripped of non-digits
IdSpaced == <<" ", "2", "9", "9", "-", "1", "2", "3", "1", "x", " ">>

IdShort == <<"2", "9", "0", "0", "1">>

\* 30 February 1990
IdBadDate == <<"2", "9", "0", "0", "2", "3", "0", "0", "1", "0", "1", "2", "3", "4">>

\* 2 9 <U+06F4> 0 1 0 1 x: a digit of another script in the year
IdOtherScript == <<"2", "9", "p4", "0", "1", "0", "1", "x">>

\* predict returned one OCRResult holding these rec_texts
Returned(tokens) == [raises |-> FALSE, pages |-> << [rec_texts |-> tokens] >>]

\* predict raised
Raises == [raises |-> TRUE, pages |-> << >>]

\* predict returned an empty list
NoResult == [raises |-> FALSE, pages |-> << >>]

NominalPredict(label) ==
    CASE label = "Num1" -> Returned(<<IdValid>>)
      [] label = "Num2" -> Returned(<<TokX, TokY>>)
      [] OTHER -> Returned(<<TokC, TokB, TokA>>)

PredictDeviations(label) ==
    {Raises, NoResult, Returned(<< >>)} \cup
    CASE label = "Num1" ->
            {Returned(<<IdShort, IdEastern>>), Returned(<<IdSpaced>>),
             Returned(<<IdBadDate>>), Returned(<<IdOtherScript>>)}
      [] OTHER -> {}

\* What happens to one label in one call. init: a construction of its
\* recognizer, if attempted at this label, succeeds; file: what its crop path
\* holds; predict: what predict does on it; in_map: the caller passes it
\* (process_crops takes any subset).
NominalOutcome(label) ==
    [init |-> TRUE, file |-> "image", predict |-> NominalPredict(label), in_map |-> TRUE]

OutcomeDeviations(label) ==
    {[NominalOutcome(label) EXCEPT !.init = FALSE],
     [NominalOutcome(label) EXCEPT !.in_map = FALSE]}
    \cup {[NominalOutcome(label) EXCEPT !.file = f] : f \in FileKinds \ {"image"}}
    \cup {[NominalOutcome(label) EXCEPT !.predict = p] : p \in PredictDeviations(label)}

AllDeviations == UNION {OutcomeDeviations(l) : l \in CropLabels}

\* at most this many labels of one call deviate from the nominal outcome
MaxDeviations == 2

\* every way the labels of D can each deviate
RECURSIVE DeviationsOn(_)
DeviationsOn(D) ==
    IF D = {} THEN {<<>>}
    ELSE LET l == CHOOSE x \in D : TRUE
         IN  {(l :> o) @@ f : o \in OutcomeDeviations(l), f \in DeviationsOn(D \ {l})}

CallOutcomes ==
    UNION { { [l \in CropLabels |-> IF l \in D THEN f[l] ELSE NominalOutcome(l)] :
                f \in DeviationsOn(D) } :
            D \in {E \in SUBSET CropLabels : Cardinality(E) <= MaxDeviations} }

FilesOf(e) == [l \in CropLabels |-> e[l].file]

\* crop_map.items() of the labels the caller passes, in image_order
CropMapItems(e) ==
    LET idx == SelectSeq([i \in 1..Len(image_order) |-> i],
                         LAMBDA i : e[image_order[i]].in_map)
    IN  [k \in 1..Len(idx) |-> <<image_order[idx[k]], out_path(image_order[idx[k]])>>]

NoCall == [kind |-> "none"]

Languages == {"ar", "en"}

SvcInit ==
    /\ ocr_service = NewOCRService
    /\ n_instances = 0
    /\ constructions = [g \in Languages |-> 0]
    /\ dispatched = {}

OcrInit ==
    /\ ocr_pc = "idle"
    /\ ocr_call = NoCall

\* the service and its record after a call that ended with loop state st
SvcAfter(st) ==
    /\ ocr_service' = st.svc
    /\ n_instances' = st.n
    /\ constructions' =
          [g \in Languages |->
              constructions[g] + Cardinality({l \in st.built : ocr_model_name(l) = g})]
    /\ dispatched' = dispatched \cup {ocr_model_name(l) : l \in st.asked}

\* a caller invokes run_ocr with the six crop paths
CallRunOcr ==
    /\ ocr_pc = "idle"
    /\ \E e \in CallOutcomes :
          /\ \A l \in CropLabels : e[l].in_map
          /\ \E r \in {run_ocr(ocr_service, n_instances,
                              [i \in 1..Len(image_order) |-> out_path(image_order[i])],
                              FilesOf(e), e)} :
                 /\ SvcAfter(r.st)
                 /\ ocr_call' = [kind |-> "run_ocr", pre |-> ocr_service, e |-> e,
                                 st |-> r.st, ocr_result |-> r.ocr_result]
    /\ ocr_pc' = "returned"

\* a caller invokes process_crops with a crop_map
CallProcessCrops ==
    /\ ocr_pc = "idle"
    /\ \E e \in CallOutcomes :
          \E r \in {process_crops(ocr_service, n_instances, CropMapItems(e),
                                   FilesOf(e), e)} :
              /\ SvcAfter(r.st)
              /\ ocr_call' = [kind |-> "process_crops", pre |-> ocr_service, e |-> e,
                              st |-> r.st, ocr_result |-> r.out]
    /\ ocr_pc' = "returned"

\* the caller takes the result; the call's locals are gone
OcrReturn ==
    /\ ocr_pc = "returned"
    /\ ocr_pc' = "idle"
    /\ ocr_call' = NoCall
    /\ UNCHANGED svc_vars

(***************************************************************************)
(* app.py: the session and process_image                                   *)
(***************************************************************************)
\* the uploaded photograph: twice the detector's frame wide and once high
\* (586 x 293), so that the scale back from the frame is exact
ImageWidth == 2 * FrameSize

ImageHeight == FrameSize

\* the frame box the detector nominally reports for class k, and one that lies
\* outside the frame
NominalBox(k) == <<20, 5 + 40 * (k - 1), 270, 40 * k>>

OffFrameBox == <<300, 10, 310, 20>>

NominalOutput(k) == [box |-> NominalBox(k), label |-> k, score |-> 90]

OutputDeviations(k) ==
    {[NominalOutput(k) EXCEPT !.score = 10], [NominalOutput(k) EXCEPT !.box = OffFrameBox]}

\* what the detection model may return: one detection per class, at most
\* budget of them deviating, or nothing at all
RawOutputs(budget) ==
    (IF budget >= 1 THEN {<< >>} ELSE {}) \cup
    UNION { { [k \in 1..7 |-> IF k \in D THEN f[k] ELSE NominalOutput(k)] :
                f \in {g \in [D -> UNION {OutputDeviations(k) : k \in 1..7}] :
                          \A k \in D : g[k] \in OutputDeviations(k)} } :
            D \in {E \in SUBSET (1..7) : Cardinality(E) <= budget} }

OutputFaults(outputs) ==
    IF Len(outputs) = 0 THEN 1
    ELSE Cardinality({k \in 1..7 : outputs[k] # NominalOutput(k)})

\* what cv2.imwrite may do per label: at most budget labels not written
WriteOutcomes(budget, labels) ==
    UNION { [D -> {"false", "raise"}] :
            D \in {E \in SUBSET (labels \cap CropLabels) : Cardinality(E) <= budget} }

\* what the recognizers may do in run_ocr (the files are the ones on disk)
RunOutcomes(budget) ==
    {e \in CallOutcomes :
        /\ \A l \in CropLabels : e[l].in_map /\ e[l].file = "image"
        /\ Cardinality({l \in CropLabels : e[l] # NominalOutcome(l)}) <= budget}

\* a session_state entry: from says whether it is None, was left by an earlier
\* run or was set by the current run; the content of what an earlier run left
\* is not kept
Unset(empty) == [from |-> "none", val |-> empty]

Aged(entry, empty) ==
    IF entry.from = "none" THEN entry ELSE [from |-> "earlier", val |-> empty]

NoRun ==
    [events |-> << >>, faults |-> 0, detections |-> NoDetections,
     crop_map |-> {}, e |-> [l \in CropLabels |-> NominalOutcome(l)],
     asked |-> {}, init_failed |-> {}, used |-> [l \in CropLabels |-> NoInstance]]

AppOff ==
    /\ image = 0
    /\ ocr_result_image = 0
    /\ det_loaded = FALSE
    /\ ss_detections = Unset(NoDetections)
    /\ ss_crop_map = Unset({})
    /\ ss_ocr_result = Unset(<< >>)
    /\ crop_files = [l \in CropLabels |-> "missing"]
    /\ pi_pc = "idle"
    /\ run = NoRun

\* the script runs with a file in the uploader
Upload ==
    /\ pi_pc = "idle"
    /\ image' = 1
    /\ UNCHANGED <<ocr_result_image, det_loaded, ss_detections, ss_crop_map, ss_ocr_result,
                   crop_files, pi_pc, run>>

\* the script runs with another photograph in the uploader: the upload branch
\* stores its path and touches no other entry of the session state
UploadOther ==
    /\ pi_pc = "idle"
    /\ image' = 2
    /\ UNCHANGED <<ocr_result_image, det_loaded, ss_detections, ss_crop_map, ss_ocr_result,
                   crop_files, pi_pc, run>>

\* the Process button: process_image(upload_path) starts
ProcessClick ==
    /\ pi_pc = "idle"
    /\ image # 0
    /\ pi_pc' = "detect"
    /\ run' = NoRun
    /\ ss_detections' = Aged(ss_detections, NoDetections)
    /\ ss_crop_map' = Aged(ss_crop_map, {})
    /\ ss_ocr_result' = Aged(ss_ocr_result, << >>)
    /\ UNCHANGED <<image, ocr_result_image, det_loaded, crop_files>>

Event(ev, faults) == [run EXCEPT !.events = Append(@, ev), !.faults = @ + faults]

\* process_image step 1, when get_detection_service returns None
DetectUnavailable ==
    /\ pi_pc = "detect"
    /\ ~det_loaded
    /\ run.faults + 1 <= MaxDeviations
    /\ pi_pc' = "idle"
    /\ run' = Event("no_detection_service", 1)
    /\ UNCHANGED <<image, ocr_result_image, det_loaded, ss_detections, ss_crop_map,
                   ss_ocr_result, crop_files>>

\* process_image step 1: detection_service.detect(image_path)
Detect ==
    /\ pi_pc = "detect"
    /\ \E outputs \in RawOutputs(MaxDeviations - run.faults) :
          \E d \in {detect(outputs, ImageWidth, ImageHeight, DefaultScoreThresh)} :
             IF d.raised
             THEN /\ pi_pc' = "idle"
                  /\ run' = Event("detect_raised", OutputFaults(outputs))
                  /\ UNCHANGED ss_detections
             ELSE /\ pi_pc' = "crop"
                  /\ run' = [Event("detect_returned", OutputFaults(outputs))
                                EXCEPT !.detections = d.result]
                  /\ ss_detections' = [from |-> "run", val |-> d.result]
    /\ det_loaded' = TRUE
    /\ UNCHANGED <<image, ocr_result_image, ss_crop_map, ss_ocr_result, crop_files>>

\* process_image step 2: crop_service.crop_regions(image_path, detections)
Crop ==
    /\ pi_pc = "crop"
    /\ \E readable \in BOOLEAN :
       \E writes \in WriteOutcomes(MaxDeviations - run.faults - (IF readable THEN 0 ELSE 1),
                                    DOMAIN run.detections.box) :
          /\ run.faults + (IF readable THEN 0 ELSE 1) <= MaxDeviations
          /\ ~readable => writes = << >>
          /\ \E c \in {crop_regions(readable, ImageWidth, ImageHeight, run.detections,
                                    DefaultMaxSize, crop_files, writes)} :
                /\ crop_files' = c.files
                /\ IF c.raised
                   THEN /\ pi_pc' = "idle"
                        /\ run' = Event("crop_raised", 1)
                        /\ UNCHANGED ss_crop_map
                   ELSE /\ pi_pc' = "ocr"
                        /\ run' = [Event("crop_returned", Cardinality(DOMAIN writes))
                                      EXCEPT !.crop_map = c.crop_map]
                        /\ ss_crop_map' = [from |-> "run", val |-> c.crop_map]
    /\ UNCHANGED <<image, ocr_result_image, det_loaded, ss_detections, ss_ocr_result>>

\* image_list = [crop_map[label] for label in image_order if label in crop_map]
ImageList(crop_map) ==
    LET idx == SelectSeq([i \in 1..Len(image_order) |-> i],
                         LAMBDA i : image_order[i] \in crop_map)
    IN  [k \in 1..Len(idx) |-> out_path(image_order[idx[k]])]

\* process_image step 3 with six crops: ocr_service.run_ocr(image_list)
Ocr ==
    /\ pi_pc = "ocr"
    /\ Len(ImageList(run.crop_map)) = 6
    /\ \E e \in RunOutcomes(MaxDeviations - run.faults) :
       \E r \in {run_ocr(ocr_service, n_instances, ImageList(run.crop_map), crop_files, e)} :
          /\ SvcAfter(r.st)
          /\ ss_ocr_result' = [from |-> "run", val |-> r.ocr_result]
          /\ ocr_result_image' = image
          /\ run' = [Event("run_ocr_returned",
                           Cardinality({l \in CropLabels : e[l] # NominalOutcome(l)}))
                        EXCEPT !.e = e, !.asked = r.st.asked,
                               !.init_failed = r.st.init_failed, !.used = r.st.used]
    /\ pi_pc' = "idle"
    /\ UNCHANGED <<image, det_loaded, ss_detections, ss_crop_map, crop_files>>

\* process_image step 3 otherwise: st.error("Expected 6 crops, got ..."); return
OcrSkipped ==
    /\ pi_pc = "ocr"
    /\ Len(ImageList(run.crop_map)) # 6
    /\ pi_pc' = "idle"
    /\ run' = Event("expected_6_crops", 0)
    /\ UNCHANGED <<image, ocr_result_image, det_loaded, ss_detections, ss_crop_map,
                   ss_ocr_result, crop_files>>
    /\ UNCHANGED svc_vars

(***************************************************************************)
(* DetectionService.detect called on its own                               *)
(***************************************************************************)
\* frame coordinates of the boxes the detection model may return: the model
\* clips its boxes to its 293 x 293 input, with x1 <= x2 and y1 <= y2 once
\* truncated to integers
FrameXs == {0, 10, 17, 100, 200, 277, 293}

FrameYs == {0, 100, 150, 293}

FrameBoxes ==
    {<<x1, y1, x2, y2>> : x1 \in FrameXs, y1 \in FrameYs, x2 \in FrameXs, y2 \in FrameYs}

ModelBoxes == {b \in FrameBoxes : b[1] <= b[3] /\ b[2] <= b[4]}

\* img.size of the photograph
OrigWidths == {1, 19, FrameSize, 2 * FrameSize, 1000}

OrigHeights == {1, FrameSize, 600}

BoxA == <<100, 100, 200, 150>>

BoxB == <<17, 100, 277, 150>>

\* class ids the model may report (1: Add1, 6: Num1, 8: not in CUSTOM_CLASSES)
\* and scores in hundredths
FewOutputs ==
    [box : {BoxA, BoxB}, label : {1, 6, 8}, score : {10, 90}]

\* the longest list of detections of the same few boxes the model returns
MaxDetections == 3

\* DETECTION_SCORE_THRESHOLD in hundredths: the default and the slider's lowest
ScoreThresholds == {DefaultScoreThresh, 10}

DetectCall(w, h, outputs, thresh) ==
    [orig_width |-> w, orig_height |-> h, outputs |-> outputs, score_thresh |-> thresh,
     raised |-> FALSE, result |-> NoDetections]

NoDetectCall == DetectCall(0, 0, << >>, 0)

DetOff ==
    /\ det_pc = "off"
    /\ det_call = NoDetectCall

\* detect is called with one detection of any box on an image of any size,
\* or with a list of detections of the few on a frame-sized image
DetInit ==
    /\ det_pc = "called"
    /\ \/ \E w \in OrigWidths, h \in OrigHeights, b \in ModelBoxes :
             det_call = DetectCall(w, h, <<[box |-> b, label |-> 1, score |-> 90]>>,
                                   DefaultScoreThresh)
       \/ \E n \in 0..MaxDetections :
             \E outputs \in [1..n -> FewOutputs], t \in ScoreThresholds :
                 det_call = DetectCall(FrameSize, FrameSize, outputs, t)

\* detect(image_path) runs to its return or its raise
CallDetect ==
    /\ det_pc = "called"
    /\ \E d \in {detect(det_call.outputs, det_call.orig_width, det_call.orig_height,
                         det_call.score_thresh)} :
          det_call' = [det_call EXCEPT !.raised = d.raised, !.result = d.result]
    /\ det_pc' = "returned"

(***************************************************************************)
(* CropService.crop_regions called on its own                              *)
(***************************************************************************)
\* the photograph cv2.imread returns: 2000 x 2000 pixels
PhotoSide == 2000

\* boxes of a DetectionSet: inside the photograph, partly or wholly outside
\* it, inverted, of zero area, thin, large
BoxLefts == {-5, 0, 100, 1990, 2100}

BoxWidths == {-10, 0, 1, 10, 20, 31, 32, 50, 400, 700, 1000, 1225, 1700}

BoxTops == {0, 100}

BoxHeights == {1, 10, 20, 40, 49, 500, 1000, 1700}

CropBoxes ==
    {<<x1, y1, x1 + dw, y1 + dh>> :
        x1 \in BoxLefts, y1 \in BoxTops, dw \in BoxWidths, dh \in BoxHeights}

\* the box of Num2, which follows the label under study in the DetectionSet
Num2Box == <<10, 10, 210, 60>>

\* CROP_MAX_SIZE: the default and the slider's lowest
MaxSizes == {DefaultMaxSize, 400}

CropCall(readable, label, box, max_size, write) ==
    [readable |-> readable,
     detections |-> [box |-> (label :> box) @@ ("Num2" :> Num2Box),
                     order |-> <<label, "Num2">>],
     max_size |-> max_size, write |-> write,
     raised |-> FALSE, crop_map |-> {}, shapes |-> [l \in FieldLabels |-> NoShape]]

CropInputs ==
    {CropCall(TRUE, label, box, max_size, write) :
        label \in {"Add1", "Num1", "BD"}, box \in CropBoxes, max_size \in MaxSizes,
        write \in {"ok", "false", "raise"}}
    \cup {CropCall(FALSE, "Add1", Num2Box, DefaultMaxSize, "ok")}

NoCropCall == CropCall(TRUE, "Add1", Num2Box, 0, "ok")

CropperOff ==
    /\ cropper_pc = "off"
    /\ cropper_call = NoCropCall

CropperInit ==
    /\ cropper_pc = "called"
    /\ cropper_call \in CropInputs

\* crop_regions(image_path, detections) runs to its return or its raise
CallCropRegions ==
    /\ cropper_pc = "called"
    /\ \E c \in {crop_regions(cropper_call.readable, PhotoSide, PhotoSide,
                               cropper_call.detections, cropper_call.max_size,
                               [l \in CropLabels |-> "missing"],
                               (cropper_call.detections.order[1] :> cropper_call.write))} :
          cropper_call' = [cropper_call EXCEPT !.raised = c.raised,
                                               !.crop_map = c.crop_map,
                                               !.shapes = c.shapes]
    /\ cropper_pc' = "returned"

(***************************************************************************)
(* Several browser sessions in one process: each has its own               *)
(* st.session_state and runs the script in its own thread; os.environ and  *)
(* the directory static/crops belong to the process                        *)
(***************************************************************************)
Sessions == {1, 2}

\* how many times a session presses the Process button
MaxRuns == 2

\* the sidebar sliders: detection threshold in hundredths, max crop size
SliderThresholds == {DefaultScoreThresh, 50}

SliderMaxSizes == {DefaultMaxSize, 400}

NewSession ==
    [pc |-> "idle", runs |-> 0,
     threshold |-> DefaultScoreThresh, max_size |-> DefaultMaxSize,
     has_ocr_service |-> FALSE, ocr_service |-> NewOCRService,
     thresh_used |-> 0, max_used |-> 0,
     detections |-> NoDetections, crop_map |-> {},
     read |-> [l \in CropLabels |-> 0],
     ocr_result |-> << >>]

ProcOff ==
    /\ environ = [DETECTION_SCORE_THRESHOLD |-> DefaultScoreThresh,
                  CROP_MAX_SIZE |-> DefaultMaxSize]
    /\ sessions = [s \in Sessions |-> NewSession]
    /\ crops_dir = [l \in CropLabels |-> 0]
    /\ recognizers = [g \in Languages |-> 0]

\* a rerun of the script in session s with the Process button pressed: the
\* sidebar writes the session's slider values to os.environ, then
\* process_image starts
ScriptRun(s) ==
    /\ sessions[s].pc = "idle"
    /\ sessions[s].runs < MaxRuns
    /\ \E t \in SliderThresholds, m \in SliderMaxSizes :
          /\ environ' = [DETECTION_SCORE_THRESHOLD |-> t, CROP_MAX_SIZE |-> m]
          /\ sessions' = [sessions EXCEPT ![s].pc = "detect", ![s].runs = @ + 1,
                                          ![s].threshold = t, ![s].max_size = m]
    /\ UNCHANGED <<crops_dir, recognizers>>

\* process_image step 1 in session s: detect reads DETECTION_SCORE_THRESHOLD
SessionDetect(s) ==
    /\ sessions[s].pc = "detect"
    /\ \E d \in {detect([k \in 1..7 |-> NominalOutput(k)], ImageWidth, ImageHeight,
                         environ.DETECTION_SCORE_THRESHOLD)} :
          sessions' = [sessions EXCEPT
                          ![s].pc = IF d.raised THEN "idle" ELSE "crop",
                          ![s].thresh_used = environ.DETECTION_SCORE_THRESHOLD,
                          ![s].detections = d.result]
    /\ UNCHANGED <<environ, crops_dir, recognizers>>

\* process_image step 2 in session s: crop_regions reads CROP_MAX_SIZE and
\* writes static/crops/<label>.png
SessionCrop(s) ==
    /\ sessions[s].pc = "crop"
    /\ \E c \in {crop_regions(TRUE, ImageWidth, ImageHeight, sessions[s].detections,
                               environ.CROP_MAX_SIZE,
                               [l \in CropLabels |-> "missing"], << >>)} :
          /\ sessions' = [sessions EXCEPT
                             ![s].pc = IF c.raised THEN "idle" ELSE "ocr",
                             ![s].max_used = environ.CROP_MAX_SIZE,
                             ![s].crop_map = c.crop_map]
          /\ crops_dir' = [l \in CropLabels |->
                              IF c.files[out_path(l)] = "image" THEN s ELSE crops_dir[l]]
    /\ UNCHANGED <<environ, recognizers>>

\* process_image step 3 in session s: get_ocr_service, then run_ocr on the
\* files the crop paths hold now
SessionOcr(s) ==
    /\ sessions[s].pc = "ocr"
    /\ \E r \in {run_ocr(sessions[s].ocr_service,
                          recognizers["ar"] + recognizers["en"],
                          ImageList(sessions[s].crop_map),
                          [l \in CropLabels |-> IF crops_dir[l] = 0 THEN "missing" ELSE "image"],
                          [l \in CropLabels |-> NominalOutcome(l)])} :
          /\ sessions' = [sessions EXCEPT
                             ![s].pc = "idle",
                             ![s].has_ocr_service = TRUE,
                             ![s].ocr_service = r.st.svc,
                             ![s].read = crops_dir,
                             ![s].ocr_result = r.ocr_result]
          /\ recognizers' =
                [g \in Languages |->
                    recognizers[g] + Cardinality({l \in r.st.built : ocr_model_name(l) = g})]
    /\ UNCHANGED <<environ, crops_dir>>

(***************************************************************************)
(* Specifications                                                          *)
(***************************************************************************)
DateNext ==
    DeriveBirthdate /\ UNCHANGED <<svc_vars, ocr_vars, app_vars, det_vars, cropper_vars, proc_vars>>

InitDate == DateInit /\ SvcInit /\ OcrInit /\ AppOff /\ DetOff /\ CropperOff /\ ProcOff

SpecDate == InitDate /\ [][DateNext]_vars

OcrNext ==
    \/ CallRunOcr /\ UNCHANGED <<date_vars, app_vars, det_vars, cropper_vars, proc_vars>>
    \/ CallProcessCrops /\ UNCHANGED <<date_vars, app_vars, det_vars, cropper_vars, proc_vars>>
    \/ OcrReturn /\ UNCHANGED <<date_vars, app_vars, det_vars, cropper_vars, proc_vars>>

InitOcr == DateOff /\ SvcInit /\ OcrInit /\ AppOff /\ DetOff /\ CropperOff /\ ProcOff

SpecOcr == InitOcr /\ [][OcrNext]_vars

Next ==
    \/ Upload /\ UNCHANGED <<date_vars, svc_vars, ocr_vars, det_vars, cropper_vars, proc_vars>>
    \/ ProcessClick /\ UNCHANGED <<date_vars, svc_vars, ocr_vars, det_vars, cropper_vars, proc_vars>>
    \/ DetectUnavailable /\ UNCHANGED <<date_vars, svc_vars, ocr_vars, det_vars, cropper_vars, proc_vars>>
    \/ Detect /\ UNCHANGED <<date_vars, svc_vars, ocr_vars, det_vars, cropper_vars, proc_vars>>
    \/ Crop /\ UNCHANGED <<date_vars, svc_vars, ocr_vars, det_vars, cropper_vars, proc_vars>>
    \/ Ocr /\ UNCHANGED <<date_vars, ocr_vars, det_vars, cropper_vars, proc_vars>>
    \/ OcrSkipped /\ UNCHANGED <<date_vars, ocr_vars, det_vars, cropper_vars, proc_vars>>

Init == DateOff /\ SvcInit /\ OcrInit /\ AppOff /\ DetOff /\ CropperOff /\ ProcOff

Spec == Init /\ [][Next]_vars

DetectNext ==
    CallDetect /\ UNCHANGED <<date_vars, svc_vars, ocr_vars, app_vars, cropper_vars, proc_vars>>

InitDetect == DateOff /\ SvcInit /\ OcrInit /\ AppOff /\ DetInit /\ CropperOff /\ ProcOff

SpecDetect == InitDetect /\ [][DetectNext]_vars

CropNext ==
    CallCropRegions /\ UNCHANGED <<date_vars, svc_vars, ocr_vars, app_vars, det_vars, proc_vars>>

InitCrop == DateOff /\ SvcInit /\ OcrInit /\ AppOff /\ DetOff /\ CropperInit /\ ProcOff

SpecCrop == InitCrop /\ [][CropNext]_vars

ProcessNext ==
    \E s \in Sessions :
        \/ ScriptRun(s) /\ UNCHANGED <<date_vars, svc_vars, ocr_vars, app_vars, det_vars, cropper_vars>>
        \/ SessionDetect(s) /\ UNCHANGED <<date_vars, svc_vars, ocr_vars, app_vars, det_vars, cropper_vars>>
        \/ SessionCrop(s) /\ UNCHANGED <<date_vars, svc_vars, ocr_vars, app_vars, det_vars, cropper_vars>>
        \/ SessionOcr(s) /\ UNCHANGED <<date_vars, svc_vars, ocr_vars, app_vars, det_vars, cropper_vars>>

SpecProcess == Init /\ [][ProcessNext]_vars

\* one session in which the user also changes the photograph between runs
UploadsNext ==
    \/ Next
    \/ UploadOther /\ UNCHANGED <<date_vars, svc_vars, ocr_vars, det_vars, cropper_vars, proc_vars>>

SpecUploads == Init /\ [][UploadsNext]_vars

(***************************************************************************)
(* Properties                                                              *)
(***************************************************************************)
\* the calendar of the years 1900..2099, stated on its own
RealDate(y, m, d) ==
    /\ m \in 1..12
    /\ d >= 1
    /\ \/ d <= 28
       \/ d \in {29, 30} /\ m # 2
       \/ d = 31 /\ m \in {1, 3, 5, 7, 8, 10, 12}
       \/ d = 29 /\ m = 2 /\ y % 4 = 0 /\ y # 1900

IdYear(id) ==
    (IF id[1] = "2" THEN 1900 ELSE 2000) + 10 * DecimalValue(id[2]) + DecimalValue(id[3])

IdMonth(id) == 10 * DecimalValue(id[4]) + DecimalValue(id[5])

IdDay(id) == 10 * DecimalValue(id[6]) + DecimalValue(id[7])

\* C4: for a string of ASCII digits of length >= 7 whose first digit is 2 or
\* 3 and whose digits 3-4 / 5-6 are a month and a day that exist in the year
\* 1900 or 2000 + digits 1-2, derive_birthdate_from_national_id returns
\* DD/MM/YYYY, zero-padded, spelling exactly that day, month and year.
ValidIdGivesDate ==
    (/\ date_pc = "returned"
     /\ Len(national_id) >= 7
     /\ \A i \in 1..Len(national_id) : national_id[i] \in AsciiDigits
     /\ national_id[1] \in {"2", "3"}
     /\ RealDate(IdYear(national_id), IdMonth(national_id), IdDay(national_id)))
    => /\ Len(bd_out) = 10
       /\ bd_out[3] = "/" /\ bd_out[6] = "/"
       /\ \A i \in {1, 2, 4, 5, 7, 8, 9, 10} : bd_out[i] \in AsciiDigits
       /\ 10 * DecimalValue(bd_out[1]) + DecimalValue(bd_out[2]) = IdDay(national_id)
       /\ 10 * DecimalValue(bd_out[4]) + DecimalValue(bd_out[5]) = IdMonth(national_id)
       /\ 1000 * DecimalValue(bd_out[7]) + 100 * DecimalValue(bd_out[8])
            + 10 * DecimalValue(bd_out[9]) + DecimalValue(bd_out[10]) = IdYear(national_id)

\* 3040229...: 29 February 2004 came back as 29/02/2004
ValidIdWitness ==
    /\ date_pc = "returned"
    /\ national_id = <<"3", "0", "4", "0", "2", "2", "9", "1", "2", "3", "4", "5", "6", "7">>
    /\ bd_out = <<"2", "9", "/", "0", "2", "/", "2", "0", "0", "4">>

\* C5: derive_birthdate_from_national_id returns the empty result for every
\* input shorter than 7 characters, with a century code other than 2 or 3,
\* or whose month and day digits are not a day of that month in that year
\* (month 00 or > 12, day 00 or > 31, 30 February, 29 February 1900, the 31st
\* of a 30-day month).
InvalidIdGivesEmpty ==
    (/\ date_pc = "returned"
     /\ \/ Len(national_id) < 7
        \/ national_id[1] \notin {"2", "3"}
        \/ /\ \A i \in 2..7 : DecimalValue(national_id[i]) >= 0
           /\ ~RealDate(IdYear(national_id), IdMonth(national_id), IdDay(national_id)))
    => bd_out = << >>

\* 2000229: 29 February 1900 does not exist and came back empty
InvalidIdWitness ==
    /\ date_pc = "returned"
    /\ national_id = <<"2", "0", "0", "0", "2", "2", "9">>
    /\ bd_out = << >>

ArabicLabels == {"Add1", "Add2", "Name1", "Name2", "Num1"}

RunOcrReturned == ocr_pc = "returned" /\ ocr_call.kind = "run_ocr"

\* predict ran on the label's image in the last call and returned tokens
Emitted(l) ==
    /\ ocr_call.st.used[l] # NoInstance
    /\ ~ocr_call.e[l].predict.raises
    /\ Len(ocr_call.e[l].predict.pages) > 0

\* C7: in run_ocr's result the tokens of Add1, Add2, Name1, Name2 and Num1 are
\* the tokens the capability emitted in reverse order (one token: unchanged),
\* and the tokens of Num2 are in the order the capability emitted them.
ArabicReversedNum2Kept ==
    RunOcrReturned =>
        \A l \in CropLabels :
            Emitted(l) =>
                LET emitted == ocr_call.e[l].predict.pages[1].rec_texts
                    out == ocr_call.ocr_result[l]
                    n == Len(emitted)
                IN  /\ Len(out) = n
                    /\ \A i \in 1..n :
                          out[i] = IF l \in ArabicLabels THEN emitted[n + 1 - i]
                                   ELSE emitted[i]

\* Add1 emitted C B A and reads A B C, Num1 emitted one token and reads it
\* unchanged, Num2 emitted X Y and reads X Y
ReversalWitness ==
    /\ RunOcrReturned
    /\ Emitted("Add1") /\ Emitted("Num1") /\ Emitted("Num2")
    /\ ocr_call.e["Add1"].predict = Returned(<<TokC, TokB, TokA>>)
    /\ ocr_call.ocr_result["Add1"] = <<TokA, TokB, TokC>>
    /\ ocr_call.e["Num1"].predict = Returned(<<IdValid>>)
    /\ ocr_call.ocr_result["Num1"] = <<IdValid>>
    /\ ocr_call.e["Num2"].predict = Returned(<<TokX, TokY>>)
    /\ ocr_call.ocr_result["Num2"] = <<TokX, TokY>>

\* the label's recognizer was there, and its image failed validation or its
\* recognition raised
FailedLabel(l) ==
    /\ l \notin ocr_call.st.init_failed
    /\ \/ ~validate_image(FilesOf(ocr_call.e), out_path(l))
       \/ ocr_call.e[l].predict.raises

\* the outcomes of a label in which its image is valid and recognition returns
Unfailing(l) ==
    {[ocr_call.e[l] EXCEPT !.file = "image", !.predict = p] :
        p \in {q \in PredictDeviations(l) \cup {NominalPredict(l)} : ~q.raises}}

SixPaths == [i \in 1..Len(image_order) |-> out_path(image_order[i])]

\* C8: when in run_ocr one label's image fails validation or its recognition
\* raises, run_ocr still returns, that label's result is empty, every label
\* of the batch has been processed, and every other label's result is what
\* it is in the run where that label does not fail.
FailureIsLocal ==
    RunOcrReturned =>
        \A l \in CropLabels :
            FailedLabel(l) =>
                /\ ocr_call.ocr_result[l] = << >>
                /\ DOMAIN ocr_call.st.results = CropLabels
                /\ \A o \in Unfailing(l) :
                      LET e2 == [ocr_call.e EXCEPT ![l] = o]
                          alt == run_ocr(ocr_call.pre, 0, SixPaths, FilesOf(e2), e2)
                      IN  \A k \in CropLabels \ {l} :
                              alt.ocr_result[k] = ocr_call.ocr_result[k]

\* recognition raised for Add2 alone: Add2 is empty, the others are read
LocalFailureWitness ==
    /\ RunOcrReturned
    /\ ocr_call.e["Add2"].predict.raises
    /\ FailedLabel("Add2")
    /\ ocr_call.ocr_result["Add2"] = << >>
    /\ ocr_call.ocr_result["Name1"] = <<TokA, TokB, TokC>>
    /\ ocr_call.ocr_result["Num2"] = <<TokX, TokY>>
    /\ ocr_call.ocr_result["BD"] = << <<"0", "1", "/", "0", "1", "/", "1", "9", "9", "0">> >>

\* C9: if the construction of a language's recognizer fails during a run of
\* run_ocr, every label routed to that language has an empty result in that
\* run.
InitFailureEmptiesProfile ==
    RunOcrReturned =>
        \A l \in ocr_call.st.init_failed :
            \A k \in CropLabels :
                ocr_model_name(k) = ocr_model_name(l) => ocr_call.ocr_result[k] = << >>

InstanceOf(l) ==
    IF ocr_model_name(l) = "ar" THEN ocr_service.ocr_ar ELSE ocr_service.ocr_en

\* C10: a recognizer exists only once a label of its language has been
\* dispatched, each language's recognizer is constructed at most once over
\* any sequence of run_ocr / process_crops calls, and every recognition runs
\* on that one instance.
LazyOnceReused ==
    /\ ocr_service.ocr_ar # NoInstance => "ar" \in dispatched
    /\ ocr_service.ocr_en # NoInstance => "en" \in dispatched
    /\ \A g \in Languages : constructions[g] <= 1
    /\ ocr_pc = "returned" =>
          \A l \in CropLabels :
              ocr_call.st.used[l] # NoInstance => ocr_call.st.used[l] = InstanceOf(l)

\* a later call recognised Add1 and Num2 on the instances an earlier call built
ReuseWitness ==
    /\ ocr_pc = "returned"
    /\ ocr_call.pre.ocr_ar # NoInstance
    /\ ocr_call.pre.ocr_en # NoInstance
    /\ ocr_call.st.used["Add1"] = ocr_call.pre.ocr_ar
    /\ ocr_call.st.used["Num2"] = ocr_call.pre.ocr_en
    /\ constructions = [g \in Languages |-> 1]

RunOver == pi_pc = "idle" /\ Len(run.events) >= 1

DetectReturned == Len(run.events) >= 1 /\ run.events[1] = "detect_returned"

CropReturned == Len(run.events) >= 2 /\ run.events[2] = "crop_returned"

OcrRan == Len(run.events) >= 3 /\ run.events[3] = "run_ocr_returned"

\* C1: after any run of process_image in which detection returned at least
\* one box (and crop_regions returned its CropSet, with or without all six
\* crops), the session holds this run's OCR result and it has all 7 labels
\* as keys.
ResultHasAllLabels ==
    (RunOver /\ DetectReturned /\ Len(run.detections.order) >= 1 /\ CropReturned) =>
        /\ ss_ocr_result.from = "run"
        /\ DOMAIN ss_ocr_result.val = FieldLabels

\* the label's crop was written and read, its recognizer was there and
\* returned the nominal tokens
Unaffected(l) ==
    /\ l \in run.crop_map
    /\ crop_files[out_path(l)] = "image"
    /\ run.e[l] = NominalOutcome(l)

\* C2: a run in which detection returned boxes and the image was read (so that
\* whatever fails is a crop, a recognizer construction, a recognition or the
\* date derivation) goes through cropping and OCR and leaves an OCR result
\* in which every unaffected field holds its recognised tokens.
OnlyNoDetectionHalts ==
    (RunOver /\ CropReturned) =>
        /\ run.events = <<"detect_returned", "crop_returned", "run_ocr_returned">>
        /\ ss_ocr_result.from = "run"
        /\ \A l \in CropLabels :
              Unaffected(l) =>
                  ss_ocr_result.val[l] =
                      get_text(NominalPredict(l).pages, l \in ArabicLabels)

\* C3: in a run the stages come in the order detect, crop_regions, run_ocr:
\* crop_regions only after detect returned a non-empty DetectionSet, run_ocr
\* only after crop_regions returned, and neither after detect raised.
StagesInOrder ==
    /\ \A i \in 1..Len(run.events) :
          /\ run.events[i] \in {"detect_returned", "detect_raised", "no_detection_service"}
                => i = 1
          /\ run.events[i] \in {"crop_returned", "crop_raised"}
                => /\ i = 2
                   /\ run.events[1] = "detect_returned"
                   /\ Len(run.detections.order) >= 1
          /\ run.events[i] \in {"run_ocr_returned", "expected_6_crops"}
                => /\ i = 3
                   /\ run.events[2] = "crop_returned"
    /\ (Len(run.events) >= 1 /\ run.events[1] = "detect_raised")
          => Len(run.events) = 1 /\ pi_pc = "idle"
    /\ pi_pc = "detect" => run.events = << >>
    /\ pi_pc = "crop" => run.events = <<"detect_returned">>
    /\ pi_pc = "ocr" => run.events = <<"detect_returned", "crop_returned">>

\* a run went through the three stages
StagesWitness ==
    /\ pi_pc = "idle"
    /\ run.events = <<"detect_returned", "crop_returned", "run_ocr_returned">>
    /\ ss_ocr_result.from = "run"

\* C6: if the Num1 crop is absent from the CropSet, or its file fails
\* validation, or its recognition raises, the run still yields a result, and
\* BD is empty in it.
Num1FailureGivesEmptyBD ==
    (/\ RunOver /\ CropReturned
     /\ \/ "Num1" \notin run.crop_map
        \/ crop_files[out_path("Num1")] # "image"
        \/ OcrRan /\ run.e["Num1"].predict.raises)
    => /\ ss_ocr_result.from = "run"
       /\ ss_ocr_result.val["BD"] = << >>

\* C11: however the sessions' first uses of a language interleave, at most
\* one recognizer per language is ever constructed in the process.
OneRecognizerPerLanguage == \A g \in Languages : recognizers[g] <= 1

\* the last run of session s went through its three stages
SessionRunOver(s) ==
    /\ sessions[s].pc = "idle"
    /\ sessions[s].runs >= 1
    /\ sessions[s].has_ocr_service

\* C12: when runs of different sessions interleave, the crops a run's
\* recognition reads are the ones its own cropping wrote, and the detection
\* threshold and max crop size it used are the ones set for it.
RunsShareNothing ==
    \A s \in Sessions :
        SessionRunOver(s) =>
            /\ \A l \in sessions[s].crop_map : sessions[s].read[l] = s
            /\ sessions[s].thresh_used = sessions[s].threshold
            /\ sessions[s].max_used = sessions[s].max_size

CropReturnedCall == cropper_pc = "returned"

StudiedLabel == cropper_call.detections.order[1]

StudiedBox == cropper_call.detections.box[StudiedLabel]

\* the part of a box that lies in the photograph, doubled for Num1
ClippedW(label, box) ==
    (Min2(box[3], PhotoSide) - Max2(box[1], 0)) * (IF label = "Num1" THEN 2 ELSE 1)

ClippedH(label, box) ==
    (Min2(box[4], PhotoSide) - Max2(box[2], 0)) * (IF label = "Num1" THEN 2 ELSE 1)

\* a region that cannot be cropped: inverted or of zero area, wholly outside
\* the photograph, or so elongated that its downscaled short side is below
\* one pixel
Malformed(label, box, max_size) ==
    \/ box[3] <= box[1] \/ box[4] <= box[2]
    \/ box[1] >= PhotoSide \/ box[2] >= PhotoSide \/ box[3] <= 0 \/ box[4] <= 0
    \/ LET w == ClippedW(label, box)
           h == ClippedH(label, box)
       IN  (w > max_size \/ h > max_size) /\ Min2(w, h) * max_size < Max2(w, h)

\* C13: crop_regions returns a CropSet without raising for any image and any
\* DetectionSet; each malformed region is absent from it and every
\* well-formed region is present (BD is never cropped; imwrite succeeds).
CropRegionsNeverFails ==
    (CropReturnedCall /\ cropper_call.write = "ok") =>
        /\ ~cropper_call.raised
        /\ \A l \in (DOMAIN cropper_call.detections.box) \ {"BD"} :
              l \in cropper_call.crop_map
                  <=> ~Malformed(l, cropper_call.detections.box[l], cropper_call.max_size)

DetectReturnedCall == det_pc = "returned" /\ ~det_call.raised

\* C14: every box of the DetectionSet detect returns lies in the image and
\* has positive width and height: 0 <= x1 < x2 <= width and
\* 0 <= y1 < y2 <= height.
BoxesInsideImage ==
    DetectReturnedCall =>
        \A l \in DOMAIN det_call.result.box :
            LET b == det_call.result.box[l]
            IN  /\ 0 <= b[1] /\ b[1] < b[3] /\ b[3] <= det_call.orig_width
                /\ 0 <= b[2] /\ b[2] < b[4] /\ b[4] <= det_call.orig_height

\* a box on the frame's right and bottom edge, on a 19 x 1 photograph whose
\* float scale falls short, came back as a box inside the photograph
BoxesInsideWitness ==
    /\ DetectReturnedCall
    /\ det_call.orig_width = 19 /\ det_call.orig_height = 1
    /\ det_call.outputs[1].box = <<293, 293, 293, 293>>
    /\ det_call.result.box["Add1"] = <<16, 0, 19, 1>>

\* 0.01 * d rounded to the nearest integer, for d >= 0
RoundedHundredth(d) == (d + 50) \div 100

\* C16: the box detect returns for a detection is the rescaled box with
\* pad_x = max(2, round(0.01 * (x2 - x1))) and pad_y = max(2, round(0.01 *
\* (y2 - y1))) subtracted from (x1, y1) and added to (x2, y2), then clamped
\* to the image.
PaddingIsRounded ==
    (DetectReturnedCall /\ Len(det_call.outputs) = 1) =>
        LET r == Rescaled(det_call.outputs[1].box, det_call.orig_width,
                          det_call.orig_height)
            pad_x == Max2(2, RoundedHundredth(r[3] - r[1]))
            pad_y == Max2(2, RoundedHundredth(r[4] - r[2]))
            l == CUSTOM_CLASSES(det_call.outputs[1].label)
        IN  det_call.result.box[l] =
                << Max2(0, r[1] - pad_x), Max2(0, r[2] - pad_y),
                   Min2(det_call.orig_width, r[3] + pad_x),
                   Min2(det_call.orig_height, r[4] + pad_y) >>

\* the detections that clear the threshold and map to label l
Survivors(l) ==
    {i \in 1..Len(det_call.outputs) :
        /\ det_call.outputs[i].score >= det_call.score_thresh
        /\ det_call.outputs[i].label \in 1..7
        /\ CUSTOM_CLASSES(det_call.outputs[i].label) = l}

LastOf(S) == CHOOSE i \in S : \A j \in S : j <= i

\* C20: the DetectionSet holds one box per label that has a surviving
\* detection and none for any other label, and the box of a label is that of
\* its last surviving detection in the order the model returned them.
LastSeenWins ==
    (det_pc = "returned") =>
        /\ DOMAIN det_call.result.box = {l \in FieldLabels : Survivors(l) # {}}
        /\ \A l \in DOMAIN det_call.result.box :
              det_call.result.box[l] =
                  ScalePadClamp(det_call.outputs[LastOf(Survivors(l))].box,
                                det_call.orig_width, det_call.orig_height)
        /\ det_call.raised <=> \A l \in FieldLabels : Survivors(l) = {}

\* Add1 was detected as BoxA, then as BoxB, then as BoxA below the threshold:
\* BoxB is kept
LastSeenWitness ==
    /\ DetectReturnedCall
    /\ det_call.score_thresh = DefaultScoreThresh
    /\ det_call.outputs = << [box |-> BoxA, label |-> 1, score |-> 90],
                             [box |-> BoxB, label |-> 1, score |-> 90],
                             [box |-> BoxA, label |-> 1, score |-> 10] >>
    /\ det_call.result.box = ("Add1" :> <<15, 98, 279, 152>>)

\* a character with each of the ten Eastern-Arabic glyphs replaced by its
\* Western digit
Western(ch) == IF ch \in EasternDigits THEN DigitChar(DecimalValue(ch)) ELSE ch

\* a token with the glyphs replaced and every non-digit character deleted
DigitsOf(token) ==
    SelectSeq([i \in 1..Len(token) |-> Western(token[i])], CharIsDigit)

\* the token BD is derived from: the first of Num1's reversed sequence, that
\* is the last one the capability emitted; << >> when there is none
Num1Token ==
    IF Emitted("Num1") /\ Len(ocr_call.e["Num1"].predict.pages[1].rec_texts) > 0
    THEN LET emitted == ocr_call.e["Num1"].predict.pages[1].rec_texts
         IN  <<emitted[Len(emitted)]>>
    ELSE << >>

IsDateText(t) ==
    /\ Len(t) = 10
    /\ t[3] = "/" /\ t[6] = "/"
    /\ \A i \in {1, 2, 4, 5, 7, 8, 9, 10} : t[i] \in AsciiDigits

\* C15: in run_ocr's result BD is [derive_birthdate(d)] when d, the digits of
\* the first token of Num1's reversed sequence after the glyph substitution,
\* has at least 7 digits and the derivation succeeds, and is empty otherwise;
\* it holds at most one element, and that element reads DD/MM/YYYY.
BDIsDerivedFromNum1 ==
    RunOcrReturned =>
        LET bd == ocr_call.ocr_result["BD"]
            d == IF Num1Token = << >> THEN << >> ELSE DigitsOf(Num1Token[1])
        IN  /\ bd = IF Len(d) >= 7 /\ derive_birthdate_from_national_id(d) # << >>
                    THEN <<derive_birthdate_from_national_id(d)>>
                    ELSE << >>
            /\ Len(bd) <= 1
            /\ \A i \in 1..Len(bd) : IsDateText(bd[i])

\* the capability emitted a short token and then the id in Eastern-Arabic
\* glyphs: BD is 29/02/2004
BDDerivedWitness ==
    /\ RunOcrReturned
    /\ Emitted("Num1")
    /\ ocr_call.e["Num1"].predict = Returned(<<IdShort, IdEastern>>)
    /\ ocr_call.ocr_result["BD"] = << <<"2", "9", "/", "0", "2", "/", "2", "0", "0", "4">> >>

\* the studied label's crop was handed to cv2.imwrite
CropStored ==
    /\ CropReturnedCall
    /\ ~cropper_call.raised
    /\ StudiedLabel \in cropper_call.crop_map

Stored == cropper_call.shapes[StudiedLabel]

\* the crop the resize rules see: the slice of the photograph, doubled for Num1
Sliced ==
    LET sh == CropShape(StudiedBox, PhotoSide, PhotoSide)
        k == IF StudiedLabel = "Num1" THEN 2 ELSE 1
    IN  [h |-> sh.h * k, w |-> sh.w * k]

\* a resize of from to to keeps the aspect ratio, up to one pixel lost by
\* each dimension to truncation
KeepsAspect(from, to) ==
    LET diff == to.h * from.w - to.w * from.h
    IN  diff <= Max2(from.h, from.w) /\ -diff <= Max2(from.h, from.w)

\* C17: a crop (after the doubling of Num1) that does not exceed max size and
\* has width or height below 32 is stored upscaled, with both dimensions at
\* least 64 and its aspect ratio kept.
SmallCropsUpscaled ==
    (/\ CropStored
     /\ Sliced.h <= cropper_call.max_size /\ Sliced.w <= cropper_call.max_size
     /\ (Sliced.h < 32 \/ Sliced.w < 32))
    => /\ Stored.h >= 64 /\ Stored.w >= 64
       /\ Stored.h >= Sliced.h /\ Stored.w >= Sliced.w
       /\ KeepsAspect(Sliced, Stored)

\* a 20 x 40 crop of Add1 was stored as 64 x 128
SmallCropWitness ==
    /\ CropStored
    /\ StudiedLabel = "Add1"
    /\ StudiedBox = <<100, 100, 120, 140>>
    /\ Stored = [h |-> 128, w |-> 64]

\* C18: every stored crop (of a well-formed region) has width <= max size
\* and height <= max size, and a crop with a dimension above max size is
\* stored with its larger dimension equal to max size and its aspect ratio
\* kept.
MaxSizeBoundsCrops ==
    (CropStored /\ ~Malformed(StudiedLabel, StudiedBox, cropper_call.max_size)) =>
        /\ Stored.h <= cropper_call.max_size /\ Stored.w <= cropper_call.max_size
        /\ (Sliced.h > cropper_call.max_size \/ Sliced.w > cropper_call.max_size)
              => /\ Max2(Stored.h, Stored.w) = cropper_call.max_size
                 /\ KeepsAspect(Sliced, Stored)

\* C19: Num1's crop is doubled before the resize rules, so it is stored as
\* any other label's crop of twice the size would be (a 50 x 20 crop as
\* 100 x 40, a 20 x 20 crop as 40 x 40); another label's crop that the rules
\* leave alone is stored as sliced.
Num1DoubledFirst ==
    CropStored =>
        LET sh == CropShape(StudiedBox, PhotoSide, PhotoSide)
            twice == ResizeCrop("Add1", 2 * sh.h, 2 * sh.w, cropper_call.max_size)
        IN  /\ StudiedLabel = "Num1" =>
                  /\ Stored = [h |-> twice.h, w |-> twice.w]
                  /\ (sh.w = 50 /\ sh.h = 20) => Stored = [h |-> 40, w |-> 100]
                  /\ (sh.w = 20 /\ sh.h = 20) => Stored = [h |-> 40, w |-> 40]
            /\ (/\ StudiedLabel # "Num1"
                /\ sh.h >= 32 /\ sh.w >= 32
                /\ sh.h <= cropper_call.max_size /\ sh.w <= cropper_call.max_size)
                  => Stored = [h |-> sh.h, w |-> sh.w]

\* a 50 x 20 crop of Num1 was stored as 100 x 40
Num1DoubledWitness ==
    /\ CropStored
    /\ StudiedLabel = "Num1"
    /\ StudiedBox = <<100, 100, 150, 120>>
    /\ Stored = [h |-> 40, w |-> 100]

\* col2 of the script: display_results runs when ocr_result is truthy (the
\* seven-key dict always is) and process_image is not in progress
ResultDisplayed == pi_pc = "idle" /\ ss_ocr_result.from # "none"

\* C21: whenever ocr_result is displayed, the stored detections, crop_map and
\* ocr_result were all produced by the same run of process_image, and that run
\* was given the currently uploaded image; in particular a run that stops early
\* leaves no earlier run's ocr_result next to its own detections or crop_map,
\* and a new upload leaves no ocr_result of the previous image.
DisplayedStateCoherent ==
    ResultDisplayed =>
        /\ ocr_result_image = image
        /\ ss_detections.from = ss_ocr_result.from
        /\ ss_crop_map.from = ss_ocr_result.from

\* the last call was given six crops that are images, its recognizers were
\* there or could be built, and predict returned for every label
SixCropsRecognized ==
    /\ ocr_pc = "returned"
    /\ \A l \in CropLabels :
          /\ ocr_call.e[l].in_map
          /\ ocr_call.e[l].file = "image"
          /\ ocr_call.e[l].init
          /\ ~ocr_call.e[l].predict.raises

\* BD of run_ocr on the service and the environment of the last call, as a
\* string: the date, or empty when BD is []
BatchBD ==
    LET bd == run_ocr(ocr_call.pre, n_instances, SixPaths,
                      FilesOf(ocr_call.e), ocr_call.e).ocr_result["BD"]
    IN  IF Len(bd) = 0 THEN << >> ELSE bd[1]

\* BD of process_crops on the same service and environment
PerFieldBD ==
    process_crops(ocr_call.pre, n_instances, CropMapItems(ocr_call.e),
                  FilesOf(ocr_call.e), ocr_call.e).out["BD"]

\* C22: for the same six crops and the same tokens returned by the
\* recognizers, multi-token Num1 outputs included, the date in run_ocr's BD
\* (or its absence) is process_crops' BD string (or its emptiness).
EntryPointsAgreeOnBD ==
    SixCropsRecognized =>
        /\ BatchBD = PerFieldBD
        /\ ocr_call.ocr_result["BD"] \in {BatchBD, <<BatchBD>>, PerFieldBD}

====
